---- MODULE Spec2Model ----
(***************************************************************************)
(* LC-3 virtual machine (iammadab/lc3): the object loader of main.rs, the  *)
(* fetch-decode-execute loop of vm.rs, the decoder of                      *)
(* decode_instruction.rs and the opcode handlers of opcodes.rs.            *)
(*                                                                         *)
(* All machine words are u16.  The handlers add with the plain `+` and     *)
(* `+=` operators of Rust, whose behaviour on overflow depends on the      *)
(* build profile: with overflow checks (debug profile) the thread panics,  *)
(* without them (release profile) the sum wraps modulo 2^16.  The profile  *)
(* is the variable overflow_checks, fixed by Init.                         *)
(***************************************************************************)
EXTENDS Integers, Sequences, FiniteSets, TLC

VARIABLES
    memory,           \* VM.memory: the non-zero cells, address |-> word
    registers,        \* VM.registers: index 0..9 |-> word
    running,          \* VM.running
    phase,            \* position of main: "init", "loaded", "loop",
                      \*   "returned", "exit0", "panic", "done"
    instruction,      \* the word fetched by the current cycle of VM::run
    stdout,           \* what was written to standard output, in order
    consumed,         \* number of bytes taken from standard input so far
    overflow_checks,  \* TRUE: arithmetic overflow panics; FALSE: it wraps
    cycles,           \* number of cycles of VM::run started so far
    call,             \* the last direct call of a pure function: its name
                      \*   and its arguments
    ret,              \* what that call returned, or that it panicked
    file,             \* the bytes of the object file main was given
    command,          \* the command main was given: "execute", "disassemble"
    terminal          \* settings of the terminal: "original" or "raw"

vars == <<memory, registers, running, phase, instruction, stdout, consumed,
          overflow_checks, cycles, call, ret, file, command, terminal>>

----------------------------------------------------------------------------
(* Bounds of the model *)

\* a program is at most this many set-up instructions, then one instruction
MaxSetup == 2
\* the loop of VM::run is followed for at most this many cycles
MaxCycles == 4

----------------------------------------------------------------------------
(* Machine constants *)

U16 == 65536

Register == [R0 |-> 0, R1 |-> 1, R2 |-> 2, R3 |-> 3, R4 |-> 4, R5 |-> 5,
             R6 |-> 6, R7 |-> 7, PC |-> 8, COND |-> 9]

Opcode == [BR |-> 0, ADD |-> 1, LD |-> 2, ST |-> 3, JSR |-> 4, AND |-> 5,
           LDR |-> 6, STR |-> 7, RTI |-> 8, NOT |-> 9, LDI |-> 10,
           STI |-> 11, JMP |-> 12, RES |-> 13, LEA |-> 14, TRAP |-> 15]

Flags == [POSITIVE |-> 1, ZERO |-> 2, NEG |-> 4]

MEMORY_SIZE == 65536
REGISTER_COUNT == 10

\* keyboard status and keyboard data: declared, used by no function
MR_KBSR == 65024
MR_KBDR == 65026

----------------------------------------------------------------------------
(* u16 arithmetic *)

RECURSIVE BitAnd(_, _)
BitAnd(a, b) ==
    IF a = 0 \/ b = 0 THEN 0
    ELSE (IF a % 2 = 1 /\ b % 2 = 1 THEN 1 ELSE 0)
         + 2 * BitAnd(a \div 2, b \div 2)

RECURSIVE BitOr(_, _)
BitOr(a, b) ==
    IF a = 0 THEN b
    ELSE IF b = 0 THEN a
    ELSE (IF a % 2 = 1 \/ b % 2 = 1 THEN 1 ELSE 0)
         + 2 * BitOr(a \div 2, b \div 2)

\* !x on a u16
BitNot(x) == (U16 - 1) - x

\* x >> n on a u16
Shr(x, n) == x \div (2 ^ n)

\* x << n on a u16 when it does not panic: bits shifted out are dropped and
\* only the low four bits of the shift amount are used
Shl(x, n) == (x * (2 ^ (n % 16))) % U16

\* x << n on a u16 shifts by the width of the type or more
ShiftOverflows(n) == n >= 16

\* a + b exceeds the range of u16
Overflows(a, b) == a + b >= U16

\* the sum as stored when the addition does not panic
WrapAdd(a, b) == (a + b) % U16

\* `expr as u16` on a usize
AsU16(x) == x % U16

mask(n) == Shl(1, n) - 1

sext(val, bit_count) ==
    LET sign_bit == Shr(val, bit_count - 1)
    IN  IF sign_bit = 1
        THEN BitOr(val, Shl(65535, bit_count))
        ELSE val

----------------------------------------------------------------------------
(* Machine state accessors.  A machine is a record                         *)
(*   [memory, registers, stdout, consumed, st]                             *)
(* where st is "ok" while the handler runs, "panic" once the thread has    *)
(* panicked and "exit0" once std::process::exit(0) was called.             *)

mem(m, addr) == IF addr \in DOMAIN m THEN m[addr] ELSE 0

mem_mut(m, addr, val) ==
    IF val = 0
    THEN [a \in (DOMAIN m) \ {addr} |-> m[a]]
    ELSE [a \in (DOMAIN m) \cup {addr} |-> IF a = addr THEN val ELSE m[a]]

reg(vm, addr) == vm.registers[addr]

reg_mut(vm, addr, val) == [vm EXCEPT !.registers[addr] = val]

panic(vm) == [vm EXCEPT !.st = "panic"]

\* update_flags without the test of bit 15: a set sign bit reads as positive
update_flags_unsigned(vm, register_addr) ==
    LET register_value == reg(vm, register_addr)
        cond_state == IF register_value = 0 THEN Flags.ZERO
                      ELSE Flags.POSITIVE
    IN  reg_mut(vm, Register.COND, cond_state)

update_flags(vm, register_addr) ==
    LET register_value == reg(vm, register_addr)
        cond_state == IF register_value = 0 THEN Flags.ZERO
                      ELSE IF Shr(register_value, 15) = 1 THEN Flags.NEG
                      ELSE Flags.POSITIVE
    IN  reg_mut(vm, Register.COND, cond_state)

----------------------------------------------------------------------------
(* Decoder *)

\* decode_instruction that sign-extends nine bits of offset for every opcode
decode_instruction_offset9(w) ==
    LET opcode == Shr(w, 12)
    IN  [opcode    |-> opcode,
         dr        |-> BitAnd(Shr(w, 9), mask(3)),
         sr1       |-> BitAnd(Shr(w, 6), mask(3)),
         sr2       |-> BitAnd(w, mask(3)),
         imm5      |-> sext(BitAnd(w, mask(5)), 5),
         nzp       |-> BitAnd(Shr(w, 9), mask(3)),
         base_r    |-> BitAnd(Shr(w, 6), mask(3)),
         trap_code |-> BitAnd(w, mask(8)),
         offset    |-> sext(BitAnd(w, mask(9)), 9),
         flag      |-> IF opcode \in {Opcode.ADD, Opcode.AND}
                       THEN BitAnd(Shr(w, 5), mask(1))
                       ELSE BitAnd(Shr(w, 11), mask(1))]

decode_instruction(w) ==
    LET opcode == Shr(w, 12)
    IN  [opcode    |-> opcode,
         dr        |-> BitAnd(Shr(w, 9), mask(3)),
         sr1       |-> BitAnd(Shr(w, 6), mask(3)),
         sr2       |-> BitAnd(w, mask(3)),
         imm5      |-> sext(BitAnd(w, mask(5)), 5),
         nzp       |-> BitAnd(Shr(w, 9), mask(3)),
         base_r    |-> BitAnd(Shr(w, 6), mask(3)),
         trap_code |-> BitAnd(w, mask(8)),
         offset    |-> IF opcode \in {Opcode.STR, Opcode.LDR}
                       THEN sext(BitAnd(w, mask(6)), 6)
                       ELSE IF opcode = Opcode.JSR
                       THEN sext(BitAnd(w, mask(11)), 11)
                       ELSE sext(BitAnd(w, mask(9)), 9),
         flag      |-> IF opcode \in {Opcode.ADD, Opcode.AND}
                       THEN BitAnd(Shr(w, 5), mask(1))
                       ELSE BitAnd(Shr(w, 11), mask(1))]

----------------------------------------------------------------------------
(* Opcode handlers (opcodes.rs).  Each takes the machine as the loop left  *)
(* it (PC already incremented) and the instruction word, and returns the   *)
(* machine it leaves.                                                      *)

\* a + b panics in this build
Faults(a, b) == overflow_checks /\ Overflows(a, b)

\* add_opcode with dr taken from four bits, so that it can index PC and COND
add_opcode_dr4(vm, instr) ==
    LET dr       == BitAnd(Shr(instr, 9), mask(4))
        sr1      == BitAnd(Shr(instr, 6), mask(3))
        imm_flag == BitAnd(Shr(instr, 5), mask(1))
        operand  == IF imm_flag = 1
                    THEN sext(BitAnd(instr, mask(5)), 5)
                    ELSE reg(vm, BitAnd(instr, mask(3)))
    IN  IF Faults(reg(vm, sr1), operand) THEN panic(vm)
        ELSE IF dr >= REGISTER_COUNT THEN panic(vm)
        ELSE update_flags(reg_mut(vm, dr, WrapAdd(reg(vm, sr1), operand)), dr)

add_opcode(vm, instr) ==
    LET dr       == BitAnd(Shr(instr, 9), mask(3))
        sr1      == BitAnd(Shr(instr, 6), mask(3))
        imm_flag == BitAnd(Shr(instr, 5), mask(1))
        operand  == IF imm_flag = 1
                    THEN sext(BitAnd(instr, mask(5)), 5)
                    ELSE reg(vm, BitAnd(instr, mask(3)))
    IN  IF Faults(reg(vm, sr1), operand) THEN panic(vm)
        ELSE update_flags(reg_mut(vm, dr, WrapAdd(reg(vm, sr1), operand)), dr)

ldi_opcode(vm, instr) ==
    LET dr        == BitAnd(Shr(instr, 9), mask(3))
        pc_offset == sext(BitAnd(instr, mask(9)), 9)
    IN  IF Faults(pc_offset, reg(vm, Register.PC)) THEN panic(vm)
        ELSE LET pointer_addr == WrapAdd(pc_offset, reg(vm, Register.PC))
             IN  update_flags(
                   reg_mut(vm, dr, mem(vm.memory, mem(vm.memory, pointer_addr))),
                   dr)

\* the LDI handler of the library crate (lib.rs), on the same machine
ldi(vm, instr) ==
    LET dr        == BitAnd(Shr(instr, 9), mask(3))
        pc_offset == sext(BitAnd(instr, mask(9)), 9)
    IN  IF Faults(pc_offset, reg(vm, Register.PC)) THEN panic(vm)
        ELSE LET mem_addr == WrapAdd(pc_offset, reg(vm, Register.PC))
             IN  update_flags(reg_mut(vm, dr, mem(vm.memory, mem_addr)), dr)

br_opcode(vm, instr) ==
    LET expected_cond == BitAnd(Shr(instr, 9), mask(3))
        pc_offset     == sext(BitAnd(instr, mask(9)), 9)
        cond_state    == reg(vm, Register.COND)
    IN  IF BitAnd(expected_cond, cond_state) # 0
        THEN IF Faults(reg(vm, Register.PC), pc_offset) THEN panic(vm)
             ELSE reg_mut(vm, Register.PC,
                          WrapAdd(reg(vm, Register.PC), pc_offset))
        ELSE vm

ld_opcode(vm, instr) ==
    LET dr        == BitAnd(Shr(instr, 9), mask(3))
        pc_offset == sext(BitAnd(instr, mask(9)), 9)
    IN  IF Faults(pc_offset, reg(vm, Register.PC)) THEN panic(vm)
        ELSE update_flags(
               reg_mut(vm, dr,
                       mem(vm.memory, WrapAdd(pc_offset, reg(vm, Register.PC)))),
               dr)

\* ldr_opcode that takes nine bits of offset, as the PC-relative loads do
ldr_opcode_offset9(vm, instr) ==
    LET dr          == BitAnd(Shr(instr, 9), mask(3))
        base        == BitAnd(Shr(instr, 6), mask(3))
        base_offset == sext(BitAnd(instr, mask(9)), 9)
    IN  IF Faults(reg(vm, base), base_offset) THEN panic(vm)
        ELSE LET mem_addr == WrapAdd(reg(vm, base), base_offset)
             IN  update_flags(reg_mut(vm, dr, mem(vm.memory, mem_addr)), dr)

ldr_opcode(vm, instr) ==
    LET dr          == BitAnd(Shr(instr, 9), mask(3))
        base        == BitAnd(Shr(instr, 6), mask(3))
        base_offset == sext(BitAnd(instr, mask(6)), 6)
    IN  IF Faults(reg(vm, base), base_offset) THEN panic(vm)
        ELSE LET mem_addr == WrapAdd(reg(vm, base), base_offset)
             IN  update_flags(reg_mut(vm, dr, mem(vm.memory, mem_addr)), dr)

lea_opcode(vm, instr) ==
    LET dr        == BitAnd(Shr(instr, 9), mask(3))
        pc_offset == sext(BitAnd(instr, mask(9)), 9)
    IN  IF Faults(reg(vm, Register.PC), pc_offset) THEN panic(vm)
        ELSE update_flags(
               reg_mut(vm, dr, WrapAdd(reg(vm, Register.PC), pc_offset)), dr)

\* st_opcode that also updates the flags on the stored register
st_opcode_flags(vm, instr) ==
    LET sr        == BitAnd(Shr(instr, 9), mask(3))
        pc_offset == sext(BitAnd(instr, mask(9)), 9)
    IN  IF Faults(reg(vm, Register.PC), pc_offset) THEN panic(vm)
        ELSE update_flags(
               [vm EXCEPT !.memory =
                  mem_mut(@, WrapAdd(reg(vm, Register.PC), pc_offset),
                          reg(vm, sr))],
               sr)

st_opcode(vm, instr) ==
    LET sr        == BitAnd(Shr(instr, 9), mask(3))
        pc_offset == sext(BitAnd(instr, mask(9)), 9)
    IN  IF Faults(reg(vm, Register.PC), pc_offset) THEN panic(vm)
        ELSE [vm EXCEPT !.memory =
                mem_mut(@, WrapAdd(reg(vm, Register.PC), pc_offset),
                        reg(vm, sr))]

\* sti_opcode that stores at the pointer cell itself, as ST does
sti_opcode_direct(vm, instr) ==
    LET sr        == BitAnd(Shr(instr, 9), mask(3))
        pc_offset == sext(BitAnd(instr, mask(9)), 9)
    IN  IF Faults(pc_offset, reg(vm, Register.PC)) THEN panic(vm)
        ELSE LET pointer_addr == WrapAdd(pc_offset, reg(vm, Register.PC))
             IN  [vm EXCEPT !.memory = mem_mut(@, pointer_addr, reg(vm, sr))]

sti_opcode(vm, instr) ==
    LET sr        == BitAnd(Shr(instr, 9), mask(3))
        pc_offset == sext(BitAnd(instr, mask(9)), 9)
    IN  IF Faults(pc_offset, reg(vm, Register.PC)) THEN panic(vm)
        ELSE LET pointer_addr == WrapAdd(pc_offset, reg(vm, Register.PC))
             IN  [vm EXCEPT !.memory =
                    mem_mut(@, mem(vm.memory, pointer_addr), reg(vm, sr))]

str_opcode(vm, instr) ==
    LET sr          == BitAnd(Shr(instr, 9), mask(3))
        base        == BitAnd(Shr(instr, 6), mask(3))
        base_offset == sext(BitAnd(instr, mask(6)), 6)
    IN  IF Faults(reg(vm, base), base_offset) THEN panic(vm)
        ELSE LET mem_addr == WrapAdd(reg(vm, base), base_offset)
             IN  [vm EXCEPT !.memory = mem_mut(@, mem_addr, reg(vm, sr))]

and_opcode(vm, instr) ==
    LET dr       == BitAnd(Shr(instr, 9), mask(3))
        sr1      == BitAnd(Shr(instr, 6), mask(3))
        imm_flag == BitAnd(Shr(instr, 5), mask(1))
        operand  == IF imm_flag = 1
                    THEN sext(BitAnd(instr, mask(5)), 5)
                    ELSE reg(vm, BitAnd(instr, mask(3)))
    IN  update_flags(reg_mut(vm, dr, BitAnd(reg(vm, sr1), operand)), dr)

\* the handler complements the register index sr, not the register
not_opcode(vm, instr) ==
    LET dr == BitAnd(Shr(instr, 9), mask(3))
        sr == BitAnd(Shr(instr, 6), mask(3))
    IN  update_flags(reg_mut(vm, dr, BitNot(sr)), dr)

jmp_opcodee(vm, instr) ==
    LET base == BitAnd(Shr(instr, 6), mask(3))
    IN  reg_mut(vm, Register.PC, reg(vm, base))

\* jsr_opcode that reads the base register before it writes R7
jsr_opcode_base_first(vm, instr) ==
    LET vm1  == reg_mut(vm, Register.R7, reg(vm, Register.PC))
        mode == BitAnd(Shr(instr, 11), mask(1))
    IN  IF mode = 1
        THEN LET pc_offset == sext(BitAnd(instr, mask(11)), 11)
             IN  IF Faults(reg(vm1, Register.PC), pc_offset) THEN panic(vm1)
                 ELSE reg_mut(vm1, Register.PC,
                              WrapAdd(reg(vm1, Register.PC), pc_offset))
        ELSE LET base == BitAnd(Shr(instr, 6), mask(3))
             IN  reg_mut(vm1, Register.PC, reg(vm, base))

jsr_opcode(vm, instr) ==
    LET vm1  == reg_mut(vm, Register.R7, reg(vm, Register.PC))
        mode == BitAnd(Shr(instr, 11), mask(1))
    IN  IF mode = 1
        THEN LET pc_offset == sext(BitAnd(instr, mask(11)), 11)
             IN  IF Faults(reg(vm1, Register.PC), pc_offset) THEN panic(vm1)
                 ELSE reg_mut(vm1, Register.PC,
                              WrapAdd(reg(vm1, Register.PC), pc_offset))
        ELSE LET base == BitAnd(Shr(instr, 6), mask(3))
             IN  reg_mut(vm1, Register.PC, reg(vm1, base))

----------------------------------------------------------------------------
(* Trap service routines.  input is what standard input delivers to the    *)
(* read of the routine: the bytes that arrive before end of input.         *)

\* u8 as char, written with {}: one character
Char(byte) == <<byte>>

Low8(x) == x % 256

print(vm, chars) == [vm EXCEPT !.stdout = @ \o chars]

trap_get_c(vm, input) ==
    \* read_exact into a buffer of two bytes
    IF Len(input) < 2
    THEN panic([vm EXCEPT !.consumed = @ + Len(input)])
    ELSE update_flags(
           reg_mut([vm EXCEPT !.consumed = @ + 2], Register.R0, input[1]),
           Register.R0)

trap_out(vm) ==
    \* println!: the character, then a line feed
    print(vm, Char(Low8(reg(vm, Register.R0))) \o <<10>>)

RECURSIVE puts_loop(_, _)
puts_loop(vm, mem_addr) ==
    IF mem_addr < AsU16(MEMORY_SIZE)
    THEN LET data == mem(vm.memory, mem_addr)
         IN  IF data = 0 THEN vm
             ELSE puts_loop(print(vm, Char(Low8(data))), mem_addr + 1)
    ELSE vm

trap_puts(vm) == puts_loop(vm, reg(vm, Register.R0))

PROMPT == <<69, 110, 116, 101, 114, 32, 97, 32, 99, 104, 97, 114, 97, 99, 116, 101, 114, 58, 32>>

trap_in(vm, input) ==
    LET vm1 == print(vm, PROMPT)
    IN  IF Len(input) < 1 THEN panic(vm1)
        ELSE reg_mut([vm1 EXCEPT !.consumed = @ + 1], Register.R0, input[1])

RECURSIVE putsp_loop(_, _)
putsp_loop(vm, mem_addr) ==
    IF mem_addr < AsU16(MEMORY_SIZE)
    THEN LET data        == mem(vm.memory, mem_addr)
             first_half  == BitAnd(data, mask(8))
             second_half == Shr(data, 8)
         IN  putsp_loop(print(vm, Char(Low8(first_half))
                                  \o Char(Low8(second_half))),
                        mem_addr + 1)
    ELSE vm

trap_putsp(vm) == putsp_loop(vm, reg(vm, Register.R0))

trap_halt(vm) == [vm EXCEPT !.st = "exit0"]

\* trap_opcode that takes an undefined trap vector for a no-op
trap_opcode_unknown_ignored(vm, instr, input) ==
    LET trap_code == BitAnd(instr, mask(8))
    IN  CASE trap_code = 32 -> trap_get_c(vm, input)
          [] trap_code = 33 -> trap_out(vm)
          [] trap_code = 34 -> trap_puts(vm)
          [] trap_code = 35 -> trap_in(vm, input)
          [] trap_code = 36 -> trap_putsp(vm)
          [] trap_code = 37 -> trap_halt(vm)
          [] OTHER -> vm

trap_opcode(vm, instr, input) ==
    LET trap_code == BitAnd(instr, mask(8))
    IN  CASE trap_code = 32 -> trap_get_c(vm, input)
          [] trap_code = 33 -> trap_out(vm)
          [] trap_code = 34 -> trap_puts(vm)
          [] trap_code = 35 -> trap_in(vm, input)
          [] trap_code = 36 -> trap_putsp(vm)
          [] trap_code = 37 -> trap_halt(vm)
          [] OTHER -> panic(vm)

----------------------------------------------------------------------------
(* Inputs: the object files main is given and what standard input holds *)

\* instruction words the programs are made of
Words == {
     5860,  \* 0x16E4  ADD R3, R3, #4
     6437,  \* 0x1925  ADD R4, R4, #5
     4132,  \* 0x1024  ADD R0, R0, #4
     5316,  \* 0x14C4  ADD R2, R3, R4
     5351,  \* 0x14E7  ADD R2, R3, #7
     5375,  \* 0x14FF  ADD R2, R3, #-1
     5887,  \* 0x16FF  ADD R3, R3, #-1
    21700,  \* 0x54C4  AND R2, R3, R4
    21734,  \* 0x54E6  AND R2, R3, #6
    38143,  \* 0x94FF  NOT R2, R3
     3585,  \* 0x0E01  BR nzp=111, +1
        1,  \* 0x0001  BR nzp=000, +1
     4094,  \* 0x0FFE  BR nzp=111, -2
     1025,  \* 0x0401  BR nzp=010, +1
    18434,  \* 0x4802  JSR +2
    20477,  \* 0x4FFD  JSR -3
    16832,  \* 0x41C0  JSRR R7
    16576,  \* 0x40C0  JSRR R3
    49280,  \* 0xC080  JMP R2
    49600,  \* 0xC1C0  JMP R7
     9727,  \* 0x25FF  LD R2, #-1
     9217,  \* 0x2401  LD R2, #1
    42495,  \* 0xA5FF  LDI R2, #-1
    41984,  \* 0xA400  LDI R2, #0
    25855,  \* 0x64FF  LDR R2, R3, #-1
    25793,  \* 0x64C1  LDR R2, R3, #1
    59391,  \* 0xE7FF  LEA R3, #-1
    58881,  \* 0xE601  LEA R3, #1
    60929,  \* 0xEE01  LEA R7, #1
    13825,  \* 0x3601  ST R3, #1
    14335,  \* 0x37FF  ST R3, #-1
    46592,  \* 0xB600  STI R3, #0
    30337,  \* 0x7681  STR R3, R2, #1
    30399,  \* 0x76BF  STR R3, R2, #-1
    32768,  \* 0x8000  RTI
    53248,  \* 0xD000  RES
    61472,  \* 0xF020  TRAP GETC
    61473,  \* 0xF021  TRAP OUT
    61474,  \* 0xF022  TRAP PUTS
    61475,  \* 0xF023  TRAP IN
    61476,  \* 0xF024  TRAP PUTSP
    61477,  \* 0xF025  TRAP HALT
    61478   \* 0xF026  TRAP with an undefined vector
}

\* load origins: the conventional 0x3000, and the top of memory
Origins == {12288, 65534}

\* instructions that prepare registers and flags for the one that follows
SetupWords == {
     5860,  \* 0x16E4  ADD R3, R3, #4
     6437,  \* 0x1925  ADD R4, R4, #5
     5887,  \* 0x16FF  ADD R3, R3, #-1
    58881   \* 0xE601  LEA R3, #1
}

\* the programs: nothing, or some set-up instructions and any instruction
Programs ==
    {<<>>} \cup
    {setup \o <<w>> :
        setup \in UNION {[1..n -> SetupWords] : n \in 0..MaxSetup},
        w \in Words}

\* a word as the two bytes of the object file, most significant first
BeBytes(w) == <<w \div 256, w % 256>>

RECURSIVE ObjectFile(_)
ObjectFile(words) ==
    IF words = <<>> THEN <<>>
    ELSE BeBytes(Head(words)) \o ObjectFile(Tail(words))

\* images that point R0 at data and call an output routine: the origin,
\* the instructions, the data
ConsoleImages == {
    \* 0x2FFE: LEA R0, #1; TRAP PUTS; 'H'; 'i'      (R0 = 0x3000)
    <<12286, 57345, 61474, 72, 105>>,
    \* 0x2FFE: LEA R0, #1; TRAP PUTSP; 'H' | 'i' << 8 (R0 = 0x3000)
    <<12286, 57345, 61476, 26952>>,
    \* 0x3000: LD R0, #1; TRAP OUT; 0x0141           (R0 = 0x0141, 'A')
    <<12288, 8193, 61473, 321>>
}

\* images that read the cell of the keyboard status register: the origin,
\* the instructions
DeviceImages == {
    \* 0xFDFF: LD R2, #0; and at 0xFE00 the word 0x0041 (BR nzp=000)
    <<65023, 9216, 65>>
}

\* the files main is run on: well-formed images, the empty file, and files
\* that end in the middle of a word
Streams ==
    {ObjectFile(<<origin>> \o prog) : origin \in Origins, prog \in Programs}
    \cup {ObjectFile(image) : image \in ConsoleImages \cup DeviceImages}
    \cup {<<>>, <<48>>, <<48, 0, 240>>, <<48, 0, 240, 37, 18>>}

\* what a read of standard input can deliver before end of input
StdinReads == {<<>>, <<65>>, <<0, 66>>, <<200, 10>>}

----------------------------------------------------------------------------
(* The disassembler (display.rs).  Text is the sequence of the codes of    *)
(* its characters.                                                         *)

\* {} of a u16: its decimal digits
RECURSIVE Decimal(_)
Decimal(n) ==
    IF n < 10 THEN <<48 + n>> ELSE Decimal(n \div 10) \o <<48 + (n % 10)>>

\* {:b} of a u16: its binary digits
RECURSIVE Binary(_)
Binary(n) ==
    IF n < 2 THEN <<48 + n>> ELSE Binary(n \div 2) \o <<48 + (n % 2)>>

SPACE == <<32>>

\* impl Display for Opcode
fmt_Opcode(opcode) ==
    CASE opcode = Opcode.BR   -> <<66, 82>>             \* "BR"
      [] opcode = Opcode.ADD  -> <<65, 68, 68>>         \* "ADD"
      [] opcode = Opcode.LD   -> <<76, 68>>             \* "LD"
      [] opcode = Opcode.ST   -> <<83, 84>>             \* "ST"
      [] opcode = Opcode.JSR  -> <<74, 83>>             \* "JS"
      [] opcode = Opcode.AND  -> <<65, 78, 68>>         \* "AND"
      [] opcode = Opcode.LDR  -> <<76, 68, 82>>         \* "LDR"
      [] opcode = Opcode.STR  -> <<83, 84, 82>>         \* "STR"
      [] opcode = Opcode.RTI  -> <<82, 84, 73>>         \* "RTI"
      [] opcode = Opcode.NOT  -> <<78, 79, 84>>         \* "NOT"
      [] opcode = Opcode.LDI  -> <<76, 68, 73>>         \* "LDI"
      [] opcode = Opcode.STI  -> <<83, 84, 73>>         \* "STI"
      [] opcode = Opcode.JMP  -> <<74, 77, 80>>         \* "JMP"
      [] opcode = Opcode.RES  -> <<82, 69, 83>>         \* "RES"
      [] opcode = Opcode.LEA  -> <<76, 69, 65>>         \* "LEA"
      [] opcode = Opcode.TRAP -> <<84, 82, 65, 80>>     \* "TRAP"

\* impl Display for Register, on the register of that index (fn r)
fmt_Register(register) ==
    CASE register = 0 -> <<82, 79>>             \* "RO"
      [] register = 1 -> <<82, 49>>             \* "R1"
      [] register = 2 -> <<82, 50>>             \* "R2"
      [] register = 3 -> <<82, 51>>             \* "R3"
      [] register = 4 -> <<82, 52>>             \* "R4"
      [] register = 5 -> <<82, 53>>             \* "R5"
      [] register = 6 -> <<82, 54>>             \* "R6"
      [] register = 7 -> <<82, 55>>             \* "R7"
      [] register = 8 -> <<80, 67>>             \* "PC"
      [] register = 9 -> <<67, 79, 78, 68>>     \* "COND"

\* impl Display for DecodedInstruction
fmt_DecodedInstruction(d) ==
    LET result == fmt_Opcode(d.opcode)
        op     == d.opcode
    IN  CASE op = Opcode.BR ->
               result \o SPACE \o Binary(d.nzp) \o SPACE \o Decimal(d.offset)
          [] op \in {Opcode.ADD, Opcode.AND} ->
               result \o SPACE \o fmt_Register(d.dr)
                      \o SPACE \o fmt_Register(d.sr1)
                      \o SPACE \o (IF d.flag = 0 THEN fmt_Register(d.sr2)
                                    ELSE Decimal(d.imm5))
          [] op \in {Opcode.LD, Opcode.LDI, Opcode.ST, Opcode.STI,
                     Opcode.LEA} ->
               result \o SPACE \o fmt_Register(d.dr)
                      \o SPACE \o Decimal(d.offset)
          [] op = Opcode.JSR ->
               IF d.flag = 1
               THEN result \o <<82, 32>> \o Decimal(d.offset)      \* "R "
               ELSE result \o <<83, 82, 32>> \o fmt_Register(d.base_r)  \* "SR "
          [] op \in {Opcode.LDR, Opcode.STR} ->
               result \o SPACE \o fmt_Register(d.dr)
                      \o SPACE \o fmt_Register(d.base_r)
                      \o SPACE \o Decimal(d.offset)
          [] op \in {Opcode.RTI, Opcode.RES} ->
               \* "unused"
               result \o <<117, 110, 117, 115, 101, 100>>
          [] op = Opcode.NOT ->
               result \o SPACE \o fmt_Register(d.dr)
                      \o SPACE \o fmt_Register(d.sr1)
          [] op = Opcode.JMP ->
               result \o SPACE \o fmt_Register(d.base_r)
          [] op = Opcode.TRAP ->
               result \o
               (CASE d.trap_code = 32 -> <<32, 71, 69, 84, 67>>       \* " GETC"
                  [] d.trap_code = 33 -> <<32, 79, 85, 84>>           \* " OUT"
                  [] d.trap_code = 34 -> <<32, 80, 85, 84, 83>>       \* " PUTS"
                  [] d.trap_code = 35 -> <<32, 73, 78>>               \* " IN"
                  [] d.trap_code = 36 -> <<32, 80, 85, 84, 83, 112>>  \* " PUTSp"
                  [] d.trap_code = 37 -> <<32, 72, 65, 76, 84>>       \* " HALT"
                  [] OTHER ->
                       \* "unrecognized"
                       <<117, 110, 114, 101, 99, 111, 103, 110, 105, 122, 101, 100>>)

----------------------------------------------------------------------------
(* main: the terminal, the loader and the two commands *)

\* Commands of cli.rs
Commands == {"execute", "disassemble"}

LOADED_MESSAGE == <<112, 114, 111, 103, 114, 97, 109, 32, 108, 111, 97, 100, 101, 100, 32, 115, 117, 99, 99, 101, 115, 115, 102, 117, 108, 108, 121, 33, 10>>

\* VM::init
VMinit == [memory |-> <<>>, registers |-> [r \in 0..(REGISTER_COUNT - 1) |-> 0],
           stdout |-> <<>>, consumed |-> 0, st |-> "ok"]

\* read_u16 on the rest of the file: the word, or Err at end of file
read_u16(f) ==
    IF Len(f) < 2 THEN [ok |-> FALSE, word |-> 0, rest |-> <<>>]
    ELSE [ok |-> TRUE, word |-> f[1] * 256 + f[2], rest |-> SubSeq(f, 3, Len(f))]

\* the loop of main: with execute = FALSE each word is printed as a line of
\* disassembly before it is stored
RECURSIVE load_loop(_, _, _, _)
load_loop(vm, f, address, execute) ==
    LET r == read_u16(f)
    IN  IF r.ok
        THEN LET vm0 == IF execute THEN vm
                        ELSE print(vm,
                               fmt_DecodedInstruction(decode_instruction(r.word))
                               \o <<10>>)
                 vm1 == [vm0 EXCEPT !.memory = mem_mut(@, address, r.word)]
             IN  IF Faults(address, 1) THEN panic(vm1)
                 ELSE load_loop(vm1, r.rest, WrapAdd(address, 1), execute)
        ELSE print(vm, LOADED_MESSAGE)

main_load(f, execute) ==
    LET r == read_u16(f)
    IN  IF ~r.ok THEN panic(VMinit)
        ELSE load_loop(reg_mut(VMinit, Register.PC, r.word), r.rest, r.word,
                       execute)

----------------------------------------------------------------------------
(* VM::run *)

dispatch(vm, decoded_instruction, instr, input) ==
    LET op == decoded_instruction.opcode
    IN  CASE op = Opcode.BR   -> br_opcode(vm, instr)
          [] op = Opcode.ADD  -> add_opcode(vm, instr)
          [] op = Opcode.LD   -> ld_opcode(vm, instr)
          [] op = Opcode.ST   -> st_opcode(vm, instr)
          [] op = Opcode.JSR  -> jsr_opcode(vm, instr)
          [] op = Opcode.AND  -> and_opcode(vm, instr)
          [] op = Opcode.LDR  -> ldr_opcode(vm, instr)
          [] op = Opcode.STR  -> str_opcode(vm, instr)
          [] op = Opcode.RTI  -> panic(vm)
          [] op = Opcode.NOT  -> not_opcode(vm, instr)
          [] op = Opcode.LDI  -> ldi_opcode(vm, instr)
          [] op = Opcode.STI  -> sti_opcode(vm, instr)
          [] op = Opcode.JMP  -> jmp_opcodee(vm, instr)
          [] op = Opcode.RES  -> panic(vm)
          [] op = Opcode.LEA  -> lea_opcode(vm, instr)
          [] op = Opcode.TRAP -> trap_opcode(vm, instr, input)

\* run_cycle that increments PC after the handler instead of before it
run_cycle_late_increment(vm, input) ==
    LET instr   == mem(vm.memory, reg(vm, Register.PC))
        decoded == decode_instruction(instr)
        vm1     == dispatch(vm, decoded, instr, input)
    IN  IF vm1.st # "ok" THEN vm1
        ELSE IF Faults(reg(vm1, Register.PC), 1) THEN panic(vm1)
        ELSE reg_mut(vm1, Register.PC, WrapAdd(reg(vm1, Register.PC), 1))

\* one iteration of the loop: fetch, decode, increment PC, execute
run_cycle(vm, input) ==
    LET instr   == mem(vm.memory, reg(vm, Register.PC))
        decoded == decode_instruction(instr)
    IN  IF Faults(reg(vm, Register.PC), 1) THEN panic(vm)
        ELSE dispatch(reg_mut(vm, Register.PC, WrapAdd(reg(vm, Register.PC), 1)),
                      decoded, instr, input)

\* the trap routines that read standard input
ReadsStdin(instr) ==
    /\ Shr(instr, 12) = Opcode.TRAP
    /\ BitAnd(instr, mask(8)) \in {32, 35}

----------------------------------------------------------------------------
(* The state machine *)

Init ==
    /\ memory = VMinit.memory
    /\ registers = VMinit.registers
    /\ running = FALSE
    /\ phase = "init"
    /\ instruction = 0
    /\ stdout = <<>>
    /\ consumed = 0
    /\ overflow_checks \in BOOLEAN
    /\ cycles = 0
    /\ call = <<"none">>
    /\ ret = [st |-> "none", val |-> 0]
    /\ file = <<>>
    /\ command = "none"
    /\ terminal = "original"

\* main up to the call of vm.run(): the terminal is put into raw mode, then
\* the file is loaded (and listed, for the command disassemble)
main ==
    /\ phase = "init"
    /\ \E f \in Streams, c \in Commands :
         LET vm == main_load(f, c = "execute")
         IN  /\ file' = f
             /\ command' = c
             /\ memory' = vm.memory
             /\ registers' = vm.registers
             /\ stdout' = vm.stdout
             /\ phase' = IF vm.st = "ok" THEN "loaded" ELSE "panic"
    /\ terminal' = "raw"
    /\ UNCHANGED <<running, instruction, consumed, overflow_checks, cycles,
                   call, ret>>

\* entry of VM::run
run ==
    /\ phase = "loaded"
    /\ command = "execute"
    /\ running' = TRUE
    /\ phase' = "loop"
    /\ UNCHANGED <<memory, registers, instruction, stdout, consumed,
                   overflow_checks, cycles, call, ret, file, command,
                   terminal>>

\* main after vm.run(), or after the loader when nothing is to be run: the
\* terminal gets its original settings back and main returns
main_restore ==
    /\ \/ phase = "returned"
       \/ phase = "loaded" /\ command = "disassemble"
    /\ terminal' = "original"
    /\ phase' = "done"
    /\ UNCHANGED <<memory, registers, running, instruction, stdout, consumed,
                   overflow_checks, cycles, call, ret, file, command>>

\* one cycle of VM::run whose instruction has opcode op
Cycle(op) ==
    /\ phase = "loop"
    /\ running
    /\ cycles < MaxCycles
    /\ LET instr == mem(memory, registers[Register.PC])
       IN  /\ Shr(instr, 12) = op
           /\ \E input \in (IF ReadsStdin(instr) THEN StdinReads ELSE {<<>>}) :
                LET vm == run_cycle([memory |-> memory, registers |-> registers,
                                     stdout |-> stdout, consumed |-> consumed,
                                     st |-> "ok"], input)
                IN  /\ memory' = vm.memory
                    /\ registers' = vm.registers
                    /\ stdout' = vm.stdout
                    /\ consumed' = vm.consumed
                    /\ phase' = IF vm.st # "ok" THEN vm.st
                                ELSE IF running THEN "loop" ELSE "returned"
                    /\ instruction' = instr
    /\ cycles' = cycles + 1
    /\ UNCHANGED <<running, overflow_checks, call, ret, file, command,
                   terminal>>

exec_BR   == Cycle(Opcode.BR)
exec_ADD  == Cycle(Opcode.ADD)
exec_LD   == Cycle(Opcode.LD)
exec_ST   == Cycle(Opcode.ST)
exec_JSR  == Cycle(Opcode.JSR)
exec_AND  == Cycle(Opcode.AND)
exec_LDR  == Cycle(Opcode.LDR)
exec_STR  == Cycle(Opcode.STR)
exec_RTI  == Cycle(Opcode.RTI)
exec_NOT  == Cycle(Opcode.NOT)
exec_LDI  == Cycle(Opcode.LDI)
exec_STI  == Cycle(Opcode.STI)
exec_JMP  == Cycle(Opcode.JMP)
exec_RES  == Cycle(Opcode.RES)
exec_LEA  == Cycle(Opcode.LEA)
exec_TRAP == Cycle(Opcode.TRAP)

Next ==
    \/ main
    \/ run
    \/ main_restore
    \/ exec_BR
    \/ exec_ADD
    \/ exec_LD
    \/ exec_ST
    \/ exec_JSR
    \/ exec_AND
    \/ exec_LDR
    \/ exec_STR
    \/ exec_RTI
    \/ exec_NOT
    \/ exec_LDI
    \/ exec_STI
    \/ exec_JMP
    \/ exec_RES
    \/ exec_LEA
    \/ exec_TRAP

Spec == Init /\ [][Next]_vars

TypeOK ==
    /\ \A a \in DOMAIN memory : a \in 0..(MEMORY_SIZE - 1) /\ memory[a] \in 1..(U16 - 1)
    /\ registers \in [0..(REGISTER_COUNT - 1) -> 0..(U16 - 1)]
    /\ running \in BOOLEAN
    /\ phase \in {"init", "loaded", "loop", "returned", "exit0", "panic",
                 "done"}
    /\ command \in {"none"} \cup Commands
    /\ terminal \in {"original", "raw"}
    /\ instruction \in 0..(U16 - 1)
    /\ consumed \in Nat
    /\ cycles \in 0..MaxCycles

----------------------------------------------------------------------------
(* Direct calls of the pure functions: decode_instruction, mask, sext, the *)
(* encode_instruction of the unit tests and the Display of a decoded       *)
(* instruction, on arguments of their own.                                 *)
(* mask and sext shift a u16 left by their argument: a shift by 16 or more *)
(* panics in a build with overflow checks, and uses the low four bits of   *)
(* the amount in a build without.  Each behaviour makes one call, from the *)
(* initial state.                                                          *)

Ok(v) == [st |-> "ok", val |-> v]
Panicked == [st |-> "panic", val |-> 0]

\* the widths mask and sext are called with
Widths == 1..16

\* field values the encoder is given: registers, immediates and offsets,
\* the smallest, the largest and those around the sign bit
EncRegisters == {0, 3, 7}
EncImm5      == {0, 1, 15, 16, 31, 65535}
EncOffset6   == {0, 31, 32, 63}
EncOffset9   == {0, 255, 256, 511}
EncOffset11  == {0, 1023, 1024, 2047}
EncTrapCodes == {0, 32, 37, 255}

\* the instruction layouts of the ISA as lists of (value, bit count)
Layouts ==
    {<<<<op, 4>>, <<dr, 3>>, <<sr1, 3>>, <<0, 1>>, <<0, 2>>, <<sr2, 3>>>> :
        op \in {Opcode.ADD, Opcode.AND},
        dr \in EncRegisters, sr1 \in EncRegisters, sr2 \in EncRegisters}
    \cup
    {<<<<op, 4>>, <<dr, 3>>, <<sr1, 3>>, <<1, 1>>, <<imm5, 5>>>> :
        op \in {Opcode.ADD, Opcode.AND},
        dr \in EncRegisters, sr1 \in EncRegisters, imm5 \in EncImm5}
    \cup
    {<<<<op, 4>>, <<dr, 3>>, <<off, 9>>>> :
        op \in {Opcode.BR, Opcode.LD, Opcode.LDI, Opcode.LEA, Opcode.ST,
                Opcode.STI},
        dr \in EncRegisters, off \in EncOffset9}
    \cup
    {<<<<op, 4>>, <<dr, 3>>, <<base, 3>>, <<off, 6>>>> :
        op \in {Opcode.LDR, Opcode.STR},
        dr \in EncRegisters, base \in EncRegisters, off \in EncOffset6}
    \cup
    {<<<<Opcode.JSR, 4>>, <<1, 1>>, <<off, 11>>>> : off \in EncOffset11}
    \cup
    {<<<<Opcode.JSR, 4>>, <<0, 1>>, <<0, 2>>, <<base, 3>>, <<0, 6>>>> :
        base \in EncRegisters}
    \cup
    {<<<<Opcode.TRAP, 4>>, <<0, 4>>, <<code, 8>>>> : code \in EncTrapCodes}

\* encode_instruction: the parts from the last to the first, each masked to
\* its size and shifted left by the sizes of the parts after it
RECURSIVE encode_loop(_, _, _, _)
encode_loop(instr_parts, k, instruction_acc, pad_count) ==
    IF k = 0 THEN Ok(instruction_acc)
    ELSE LET instr_size == instr_parts[k][2]
             instr_part == BitAnd(instr_parts[k][1], mask(instr_size))
         IN  IF overflow_checks
                /\ (ShiftOverflows(instr_size) \/ ShiftOverflows(pad_count))
             THEN Panicked
             ELSE IF Faults(instruction_acc, Shl(instr_part, pad_count))
             THEN Panicked
             ELSE encode_loop(instr_parts, k - 1,
                              WrapAdd(instruction_acc,
                                      Shl(instr_part, pad_count)),
                              pad_count + instr_size)

encode_instruction(instr_parts) ==
    encode_loop(instr_parts, Len(instr_parts), 0, 0)

call_decode_instruction ==
    /\ call = <<"none">>
    /\ \E w \in 0..(U16 - 1) :
         /\ call' = <<"decode_instruction", w>>
         /\ ret' = Ok(decode_instruction(w))
    /\ UNCHANGED <<memory, registers, running, phase, instruction, stdout,
                   consumed, overflow_checks, cycles, file, command, terminal>>

call_mask ==
    /\ call = <<"none">>
    /\ \E n \in Widths :
         /\ call' = <<"mask", n>>
         /\ ret' = IF overflow_checks /\ ShiftOverflows(n) THEN Panicked
                   ELSE Ok(mask(n))
    /\ UNCHANGED <<memory, registers, running, phase, instruction, stdout,
                   consumed, overflow_checks, cycles, file, command, terminal>>

\* the values sext is called with for a width: every value of that many
\* bits, as it is, with the next bit set, and with all higher bits set
SextValues(bit_count) ==
    {v + high : v \in 0..((2 ^ bit_count) - 1),
                high \in {0, (2 ^ bit_count) % U16, U16 - (2 ^ bit_count)}}

call_sext ==
    /\ call = <<"none">>
    /\ \E bit_count \in Widths : \E val \in SextValues(bit_count) :
         /\ call' = <<"sext", val, bit_count>>
         /\ ret' = IF overflow_checks /\ ShiftOverflows(bit_count)
                      /\ Shr(val, bit_count - 1) = 1
                   THEN Panicked
                   ELSE Ok(sext(val, bit_count))
    /\ UNCHANGED <<memory, registers, running, phase, instruction, stdout,
                   consumed, overflow_checks, cycles, file, command, terminal>>

call_encode_instruction ==
    /\ call = <<"none">>
    /\ \E instr_parts \in Layouts :
         /\ call' = <<"encode_instruction", instr_parts>>
         /\ ret' = encode_instruction(instr_parts)
    /\ UNCHANGED <<memory, registers, running, phase, instruction, stdout,
                   consumed, overflow_checks, cycles, file, command, terminal>>

\* the line of disassembly of a word: Display of its decoded form
call_fmt ==
    /\ call = <<"none">>
    /\ \E w \in 0..(U16 - 1) :
         /\ call' = <<"fmt", w>>
         /\ ret' = Ok(fmt_DecodedInstruction(decode_instruction(w)))
    /\ UNCHANGED <<memory, registers, running, phase, instruction, stdout,
                   consumed, overflow_checks, cycles, file, command, terminal>>

NextFn ==
    \/ call_fmt
    \/ call_decode_instruction
    \/ call_mask
    \/ call_sext
    \/ call_encode_instruction

SpecFn == Init /\ [][NextFn]_vars

----------------------------------------------------------------------------
(* Vocabulary of the properties.  In a step of the loop, the unprimed      *)
(* variables are the machine before the fetch, instruction' is the word    *)
(* the cycle fetched and the primed variables are the machine the cycle    *)
(* left.                                                                   *)

PCreg   == registers[Register.PC]
CONDreg == registers[Register.COND]

\* the step is a cycle of VM::run
CycleStep == cycles' = cycles + 1

\* the step is a cycle whose handler ran to its end
Completed == CycleStep /\ phase' \in {"loop", "returned"}

\* the opcode of the instruction of the step
FetchedOp == Shr(instruction', 12)

\* the fields of the instruction of the step
Fetched == decode_instruction(instruction')

\* the fields of the instruction of the last cycle
Last == decode_instruction(instruction)

\* the address of the instruction after the one the step fetched
NextAddr == (PCreg + 1) % U16

\* the sign of a word as a condition flag
SignFlag(v) == IF v = 0 THEN 2 ELSE IF v >= 32768 THEN 4 ELSE 1

\* registers' differs from registers at most at the indices in S
OnlyRegs(S) == \A r \in 0..9 : r \notin S => registers'[r] = registers[r]

----------------------------------------------------------------------------
\* C1: every cycle reads its instruction word from MEM[PC] and increments PC
\* before the handler runs: in every cycle whose handler runs to its end, a
\* PC-relative handler (BR, JSR, LD, LDI, LEA, ST, STI) has used the address
\* of the next instruction (fetch address + 1) plus the offset, and a handler
\* that does not assign PC leaves PC at the fetch address + 1.
C1_Step ==
    /\ CycleStep => instruction' = mem(memory, PCreg)
    /\ Completed =>
         LET d      == Fetched
             Target == (NextAddr + d.offset) % U16
         IN  /\ (d.opcode = Opcode.LEA) => registers'[d.dr] = Target
             /\ (d.opcode = Opcode.LD) => registers'[d.dr] = mem(memory, Target)
             /\ (d.opcode = Opcode.LDI) =>
                   registers'[d.dr] = mem(memory, mem(memory, Target))
             /\ (d.opcode = Opcode.ST) =>
                   memory' = mem_mut(memory, Target, registers[d.dr])
             /\ (d.opcode = Opcode.STI) =>
                   memory' = mem_mut(memory, mem(memory, Target), registers[d.dr])
             /\ (d.opcode = Opcode.BR) =>
                   registers'[Register.PC] =
                     IF BitAnd(d.nzp, CONDreg) # 0 THEN Target ELSE NextAddr
             /\ (d.opcode = Opcode.JSR /\ d.flag = 1) =>
                   /\ registers'[Register.PC] = Target
                   /\ registers'[Register.R7] = NextAddr
             /\ (d.opcode \notin {Opcode.BR, Opcode.JSR, Opcode.JMP}) =>
                   registers'[Register.PC] = NextAddr

C1_FetchIncrementDispatch == [][C1_Step]_vars

\* LD R2, #-1 ran at the origin 0x3000 and loaded the word at 0x3000 (its
\* own): the address was (0x3000 + 1) + 0xFFFF modulo 2^16
C1_Witness ==
    /\ phase = "loop"
    /\ cycles = 1
    /\ instruction = 9727
    /\ registers[Register.PC] = 12289
    /\ registers[Register.R2] = 9727

----------------------------------------------------------------------------
\* C2: after TRAP x25 (HALT) has executed, running is false and control has
\* returned from run (no further cycle is started).
C2_HaltReturnsFromRun ==
    (instruction = 61477 /\ phase # "panic" /\ cycles > 0)
        => (running = FALSE /\ phase = "returned")

----------------------------------------------------------------------------
\* C3: after a handler that writes a destination register (ADD, AND, NOT,
\* LD, LDI, LDR, LEA) has run to its end, COND is one of 1, 2, 4 and is the
\* sign of R[dr]: 2 if R[dr] = 0, 4 if bit 15 of R[dr] is set, 1 otherwise.
WritesDr(op) ==
    op \in {Opcode.ADD, Opcode.AND, Opcode.NOT, Opcode.LD, Opcode.LDI,
            Opcode.LDR, Opcode.LEA}

C3_FlagsFollowDr ==
    (phase = "loop" /\ cycles > 0 /\ WritesDr(Shr(instruction, 12)))
        => /\ CONDreg \in {1, 2, 4}
           /\ CONDreg = SignFlag(registers[Last.dr])

\* ADD R3, R3, #-1 on R3 = 0 left R3 = 0xFFFF and COND = NEG
C3_Witness ==
    /\ phase = "loop"
    /\ instruction = 5887
    /\ registers[Register.R3] = 65535
    /\ CONDreg = 4

----------------------------------------------------------------------------
\* C4: a cycle that executes BR, JMP, JSR, ST, STI, STR or one of the traps
\* OUT, PUTS, PUTSP, HALT leaves COND as it was before the cycle, whatever
\* the prior state and the instruction word.
NoFlagUpdate(w) ==
    \/ Shr(w, 12) \in {Opcode.BR, Opcode.JMP, Opcode.JSR, Opcode.ST,
                       Opcode.STI, Opcode.STR}
    \/ Shr(w, 12) = Opcode.TRAP
         /\ decode_instruction(w).trap_code \in {33, 34, 36, 37}

C4_CondUnchanged ==
    [][(CycleStep /\ NoFlagUpdate(instruction'))
          => registers'[Register.COND] = CONDreg]_vars

\* ST R3, #1 ran with R3 = 0 after ADD R4, R4, #5 had set COND = POS: the
\* flags still say POS although the stored register is zero
C4_Witness ==
    /\ phase = "loop"
    /\ cycles = 2
    /\ instruction = 13825
    /\ registers[Register.R3] = 0
    /\ registers[Register.R4] = 5
    /\ CONDreg = 1

----------------------------------------------------------------------------
\* C5: COND is always 0, 1, 2 or 4; it is 0 only as long as no flag-updating
\* instruction has executed (once it is not 0 it is never 0 again, and it is
\* not 0 after a flag-updating handler); and an instruction that writes
\* R[dr] changes no register but R[dr] (dr in 0..7), PC (the increment of
\* the loop) and COND (the flag of R[dr]).
UpdatesFlags(w) ==
    \/ WritesDr(Shr(w, 12))
    \/ Shr(w, 12) = Opcode.TRAP /\ decode_instruction(w).trap_code = 32

C5_Step ==
    /\ CONDreg # 0 => registers'[Register.COND] # 0
    /\ (Completed /\ UpdatesFlags(instruction')) =>
          registers'[Register.COND] # 0
    /\ (Completed /\ WritesDr(FetchedOp)) =>
          LET dr == Fetched.dr
          IN  /\ dr \in 0..7
              /\ OnlyRegs({dr, Register.PC, Register.COND})
              /\ registers'[Register.PC] = NextAddr
              /\ registers'[Register.COND] = SignFlag(registers'[dr])

----------------------------------------------------------------------------
\* C6: a cycle that executes ADD does not fault and sets R[dr] to
\* (R[sr1] + imm5) mod 2^16 when the flag bit is 1 and to
\* (R[sr1] + R[sr2]) mod 2^16 when it is 0.
C6_AddWraps ==
    [][(CycleStep /\ FetchedOp = Opcode.ADD /\ PCreg < U16 - 1)
          => LET d == Fetched
             IN  /\ phase' = "loop"
                 /\ registers'[d.dr] =
                      (registers[d.sr1]
                       + (IF d.flag = 1 THEN d.imm5 ELSE registers[d.sr2]))
                      % U16]_vars

----------------------------------------------------------------------------
\* C7: no address computation faults: the increment of PC in the loop wraps
\* 0xFFFF to 0x0000, and a cycle that executes BR, JSR, LD, LDI, LEA, ST,
\* STI, LDR or STR does not panic, whatever the sign of its offset.
ComputesAddress(op) ==
    op \in {Opcode.BR, Opcode.JSR, Opcode.LD, Opcode.LDI, Opcode.LEA,
            Opcode.ST, Opcode.STI, Opcode.LDR, Opcode.STR}

C7_AddressesWrap ==
    [][(CycleStep /\ ComputesAddress(FetchedOp))
          => /\ phase' # "panic"
             /\ (FetchedOp = Opcode.LEA =>
                   registers'[Fetched.dr] = (NextAddr + Fetched.offset) % U16)
      ]_vars

----------------------------------------------------------------------------
\* C8: a BR with nzp = 000 that runs to its end leaves PC at the address of
\* the next instruction, and a BR with nzp = 111 that runs to its end has
\* set PC to that address plus the offset, in every state, the first cycle
\* of a freshly loaded program included.
C8_BrMask ==
    [][(Completed /\ FetchedOp = Opcode.BR)
          => LET d == Fetched
             IN  /\ (d.nzp = 0 => registers'[Register.PC] = NextAddr)
                 /\ (d.nzp = 7 =>
                       registers'[Register.PC] = (NextAddr + d.offset) % U16)
      ]_vars

----------------------------------------------------------------------------
\* C9: a NOT that runs to its end has set R[dr] to the 16-bit complement of
\* the contents of R[sr1], and COND to the sign of R[dr].
C9_NotComplements ==
    [][(Completed /\ FetchedOp = Opcode.NOT)
          => LET d == Fetched
             IN  /\ registers'[d.dr] = BitNot(registers[d.sr1])
                 /\ registers'[Register.COND] = SignFlag(registers'[d.dr])
      ]_vars

----------------------------------------------------------------------------
\* C10: a JSR that runs to its end has stored the incremented PC in R7; with
\* flag = 1 PC is the incremented PC plus the sign-extended offset11; with
\* flag = 0 PC is R[base_r] as it is after the write of R7 (the incremented
\* PC when base_r = 7); COND, the other registers and memory are unchanged.
C10_Step ==
    (Completed /\ FetchedOp = Opcode.JSR) =>
        LET d == Fetched
        IN  /\ registers'[Register.R7] = NextAddr
            /\ d.flag = 1 =>
                  registers'[Register.PC] =
                    (NextAddr + sext(instruction' % 2048, 11)) % U16
            /\ d.flag = 0 =>
                  registers'[Register.PC] =
                    IF d.base_r = 7 THEN NextAddr ELSE registers[d.base_r]
            /\ OnlyRegs({Register.R7, Register.PC})
            /\ memory' = memory

C10_JsrLinksThenJumps == [][C10_Step]_vars

\* JSRR R7 ran at the origin 0x3000 with R7 = 0: PC is the return address
\* 0x3001 that the handler had just written to R7, not the old R7
C10_Witness ==
    /\ phase = "loop"
    /\ cycles = 1
    /\ instruction = 16832
    /\ registers[Register.R7] = 12289
    /\ registers[Register.PC] = 12289

----------------------------------------------------------------------------
\* the machine a handler is entered with in the step: the machine before
\* the cycle with PC incremented
Entered ==
    [memory |-> memory,
     registers |-> [registers EXCEPT ![Register.PC] = NextAddr],
     stdout |-> stdout, consumed |-> consumed, st |-> "ok"]

\* the LDI handler of opcodes.rs, the one VM::run dispatches to, loads
\* through the pointer
C11_LdiOfOpcodes ==
    (Completed /\ FetchedOp = Opcode.LDI) =>
        LET d       == Fetched
            pointer == (NextAddr + d.offset) % U16
        IN  /\ registers'[d.dr] = mem(memory, mem(memory, pointer))
            /\ registers'[Register.COND] = SignFlag(registers'[d.dr])

\* the LDI handler of lib.rs, entered with the same machine and word, loads
\* through the pointer
C11_LdiOfLib ==
    (Completed /\ FetchedOp = Opcode.LDI) =>
        LET d       == Fetched
            pointer == (NextAddr + d.offset) % U16
            vm      == ldi(Entered, instruction')
        IN  vm.st = "ok" =>
              /\ reg(vm, d.dr) = mem(memory, mem(memory, pointer))
              /\ reg(vm, Register.COND) = SignFlag(reg(vm, d.dr))

\* C11: every LDI handler of the source, run to its end on a machine whose
\* PC is the incremented PC, has set R[dr] to MEM[MEM[PC + offset9]] (two
\* memory reads) and COND to the sign of R[dr].
C11_LdiLoadsThroughPointer == [][C11_LdiOfOpcodes /\ C11_LdiOfLib]_vars

----------------------------------------------------------------------------
\* C12: a LD that runs to its end has set R[dr] to MEM[PC + sext(offset9)],
\* a LDR to MEM[R[base_r] + sext(offset6)] (R[base_r] as it was before the
\* instruction) and a LEA to PC + sext(offset9), PC being the incremented
\* PC and the sums taken modulo 2^16; each has set COND to the sign of
\* R[dr] and has left memory, PC and the other general registers unchanged.
C12_Step ==
    (Completed /\ FetchedOp \in {Opcode.LD, Opcode.LDR, Opcode.LEA}) =>
        LET d == Fetched
        IN  /\ (d.opcode = Opcode.LD) =>
                 registers'[d.dr] =
                   mem(memory, (NextAddr + sext(instruction' % 512, 9)) % U16)
            /\ (d.opcode = Opcode.LDR) =>
                 registers'[d.dr] =
                   mem(memory, (registers[d.base_r]
                                + sext(instruction' % 64, 6)) % U16)
            /\ (d.opcode = Opcode.LEA) =>
                 registers'[d.dr] =
                   (NextAddr + sext(instruction' % 512, 9)) % U16
            /\ registers'[Register.COND] = SignFlag(registers'[d.dr])
            /\ registers'[Register.PC] = NextAddr
            /\ OnlyRegs({d.dr, Register.PC, Register.COND})
            /\ memory' = memory

C12_LoadsAndLea == [][C12_Step]_vars

\* LEA R3, #1 then LDR R2, R3, #-1: the base is 0x3002 and the six-bit
\* offset -1, so that R2 holds the word at 0x3001, the LDR itself
C12_Witness ==
    /\ phase = "loop"
    /\ cycles = 2
    /\ instruction = 25855
    /\ registers[Register.R3] = 12290
    /\ registers[Register.R2] = 25855
    /\ registers[Register.PC] = 12290
    /\ CONDreg = 1

----------------------------------------------------------------------------
\* C13: a ST, STI or STR that runs to its end has written R[dr], the
\* register of bits [11:9], to one memory cell: MEM[PC + offset9] for ST,
\* MEM[MEM[PC + offset9]] for STI, MEM[R[base_r] + offset6] for STR (PC the
\* incremented PC, sums modulo 2^16); every other cell and every register,
\* COND included, is as before (PC is the incremented PC).
C13_Step ==
    (Completed /\ FetchedOp \in {Opcode.ST, Opcode.STI, Opcode.STR}) =>
        LET d      == Fetched
            source == registers[(instruction' \div 512) % 8]
            target == (NextAddr + sext(instruction' % 512, 9)) % U16
            cell   == IF d.opcode = Opcode.ST THEN target
                      ELSE IF d.opcode = Opcode.STI THEN mem(memory, target)
                      ELSE (registers[d.base_r]
                            + sext(instruction' % 64, 6)) % U16
        IN  /\ mem(memory', cell) = source
            /\ \A a \in (DOMAIN memory \cup DOMAIN memory') \ {cell} :
                  mem(memory', a) = mem(memory, a)
            /\ OnlyRegs({Register.PC})
            /\ registers'[Register.PC] = NextAddr

C13_StoresWriteOneCell == [][C13_Step]_vars

\* ADD R3, R3, #4 then STI R3, #0: the pointer cell 0x3002 holds 0, so the
\* 4 of R3 went to MEM[0] and the pointer cell is still 0
C13_Witness ==
    /\ phase = "loop"
    /\ cycles = 2
    /\ instruction = 46592
    /\ registers[Register.R3] = 4
    /\ mem(memory, 0) = 4
    /\ mem(memory, 12290) = 0
    /\ CONDreg = 1

----------------------------------------------------------------------------
(* Vocabulary of the properties of the pure functions *)

\* bits [lo + n - 1 : lo] of the word w
Field(w, lo, n) == (w \div (2 ^ lo)) % (2 ^ n)

\* the n-bit two's complement number v as a 16-bit two's complement word
SextOf(v, n) == IF v >= 2 ^ (n - 1) THEN v + U16 - (2 ^ n) ELSE v

\* the last call was a call of the function fn
Called(fn) == call[1] = fn

----------------------------------------------------------------------------
\* C14: for every 16-bit word w, decode_instruction(w) returns, and returns
\* opcode = bits[15:12], dr = nzp = bits[11:9], sr1 = base_r = bits[8:6],
\* sr2 = bits[2:0], trap_code = bits[7:0], imm5 = sext(bits[4:0], 5),
\* offset = the sign extension of offset6 for LDR/STR, of offset11 for JSR
\* and of offset9 otherwise, flag = bit 5 for ADD/AND and bit 11 otherwise;
\* decoding the same word again gives the same fields.
C14_Decoded ==
    Called("decode_instruction") =>
        LET w == call[2]
            d == ret.val
        IN  /\ ret.st = "ok"
            /\ d = decode_instruction(w)
            /\ d.opcode = Field(w, 12, 4)
            /\ d.dr = Field(w, 9, 3)
            /\ d.nzp = Field(w, 9, 3)
            /\ d.sr1 = Field(w, 6, 3)
            /\ d.base_r = Field(w, 6, 3)
            /\ d.sr2 = Field(w, 0, 3)
            /\ d.trap_code = Field(w, 0, 8)
            /\ d.imm5 = SextOf(Field(w, 0, 5), 5)
            /\ d.offset =
                 IF d.opcode \in {Opcode.LDR, Opcode.STR}
                 THEN SextOf(Field(w, 0, 6), 6)
                 ELSE IF d.opcode = Opcode.JSR
                 THEN SextOf(Field(w, 0, 11), 11)
                 ELSE SextOf(Field(w, 0, 9), 9)
            /\ d.flag = IF d.opcode \in {Opcode.ADD, Opcode.AND}
                        THEN Field(w, 5, 1) ELSE Field(w, 11, 1)

\* C14, second part: decoding the word that encode_instruction builds from
\* the fields of an instruction layout returns those fields (immediates and
\* offsets as their sign extension).
C14_RoundTrip ==
    Called("encode_instruction") =>
        LET parts == call[2]
            op    == parts[1][1]
            d     == decode_instruction(ret.val)
        IN  /\ ret.st = "ok"
            /\ d.opcode = op
            /\ (op \in {Opcode.ADD, Opcode.AND}) =>
                 /\ d.dr = parts[2][1]
                 /\ d.sr1 = parts[3][1]
                 /\ d.flag = parts[4][1]
                 /\ (d.flag = 0 => d.sr2 = parts[6][1])
                 /\ (d.flag = 1 => d.imm5 = SextOf(parts[5][1] % 32, 5))
            /\ (op \in {Opcode.BR, Opcode.LD, Opcode.LDI, Opcode.LEA,
                        Opcode.ST, Opcode.STI}) =>
                 /\ d.dr = parts[2][1]
                 /\ d.nzp = parts[2][1]
                 /\ d.offset = SextOf(parts[3][1], 9)
            /\ (op \in {Opcode.LDR, Opcode.STR}) =>
                 /\ d.dr = parts[2][1]
                 /\ d.base_r = parts[3][1]
                 /\ d.offset = SextOf(parts[4][1], 6)
            /\ (op = Opcode.JSR) =>
                 /\ d.flag = parts[2][1]
                 /\ (d.flag = 1 => d.offset = SextOf(parts[3][1], 11))
                 /\ (d.flag = 0 => d.base_r = parts[4][1])
            /\ (op = Opcode.TRAP) => d.trap_code = parts[3][1]

C14_DecodeFields == C14_Decoded /\ C14_RoundTrip

\* the word of the unit test, 0b0001_000_001_0_00_010, was decoded: ADD,
\* dr = R0, sr1 = R1, register mode, sr2 = R2
C14_Witness ==
    /\ call = <<"decode_instruction", 4162>>
    /\ ret.st = "ok"
    /\ ret.val.opcode = Opcode.ADD
    /\ ret.val.dr = 0
    /\ ret.val.sr1 = 1
    /\ ret.val.flag = 0
    /\ ret.val.sr2 = 2

----------------------------------------------------------------------------
\* C15: for every n in 1..16, mask(n) returns 2^n - 1, and sext of an n-bit
\* value v, read as a signed 16-bit number, is v read as a signed n-bit
\* number (so sext(0b11111, 5) = 0xFFFF and sext(0b01111, 5) = 0x000F), the
\* widths 1 and 16 included.
C15_MaskAndSext ==
    /\ Called("mask") =>
         /\ ret.st = "ok"
         /\ ret.val = (2 ^ call[2]) - 1
    /\ (Called("sext") /\ call[2] < 2 ^ call[3]) =>
         /\ ret.st = "ok"
         /\ ret.val = SextOf(call[2], call[3])

----------------------------------------------------------------------------
(* Vocabulary of the properties of the trap routines *)

\* the step is a cycle that executes TRAP with the given trap vector
Trap(code) == CycleStep /\ FetchedOp = Opcode.TRAP /\ instruction' % 256 = code

\* the low bytes of the cells of m from address a up to the first zero cell
RECURSIVE StringAt(_, _)
StringAt(m, a) ==
    IF mem(m, a) = 0 THEN <<>>
    ELSE <<mem(m, a) % 256>> \o StringAt(m, (a + 1) % U16)

\* bits [7:0] then bits [15:8] of the cells of m from address a up to the
\* first zero cell
RECURSIVE PackedAt(_, _)
PackedAt(m, a) ==
    IF mem(m, a) = 0 THEN <<>>
    ELSE <<mem(m, a) % 256, mem(m, a) \div 256>> \o PackedAt(m, (a + 1) % U16)

----------------------------------------------------------------------------
\* C16: a TRAP PUTS that runs to its end has appended to the output the low
\* byte of each memory cell from address R[R0] up to the first zero cell, in
\* address order, and nothing else (with R0 = 0x3000 and memory 'H', 'i', 0
\* the output is "Hi").
C16_PutsWritesString ==
    [][(Trap(34) /\ Completed)
          => stdout' = stdout \o StringAt(memory, registers[Register.R0])
      ]_vars

----------------------------------------------------------------------------
\* C17: a TRAP PUTSP that runs to its end has appended to the output, for
\* each memory cell from address R[R0] up to the first zero cell, the
\* character of bits [7:0] then the character of bits [15:8], and nothing
\* for the zero cell.
C17_PutspWritesPairs ==
    [][(Trap(36) /\ Completed)
          => stdout' = stdout \o PackedAt(memory, registers[Register.R0])
      ]_vars

----------------------------------------------------------------------------
\* C18: a TRAP OUT that runs to its end has appended to the output exactly
\* one character, the low byte of R[R0], and has changed no memory cell and
\* no register (PC is the incremented PC).
C18_OutWritesOneChar ==
    [][(Trap(33) /\ Completed)
          => /\ stdout' = stdout \o <<registers[Register.R0] % 256>>
             /\ OnlyRegs({Register.PC})
             /\ memory' = memory
      ]_vars

----------------------------------------------------------------------------
\* C19: a TRAP GETC that is delivered at least one byte runs to its end and
\* has taken exactly one byte from the input; R[R0] is then a byte, COND is
\* the sign of R[R0] and nothing was written to the output.
C19_GetcReadsOneByte ==
    [][(Trap(32) /\ consumed' > consumed)
          => /\ Completed
             /\ consumed' = consumed + 1
             /\ registers'[Register.R0] \in 0..255
             /\ registers'[Register.COND] =
                  SignFlag(registers'[Register.R0])
             /\ stdout' = stdout
      ]_vars

----------------------------------------------------------------------------
\* C20: a TRAP IN that runs to its end has appended to the output the
\* prompt "Enter a character: " and then the byte it read, has taken one
\* byte from the input, has set R[R0] to it and COND to the sign of R[R0].
C20_InPromptsReadsEchoes ==
    [][(Trap(35) /\ Completed)
          => /\ consumed' = consumed + 1
             /\ registers'[Register.R0] \in 0..255
             /\ stdout' = stdout \o PROMPT \o <<registers'[Register.R0]>>
             /\ registers'[Register.COND] =
                  SignFlag(registers'[Register.R0])
      ]_vars

----------------------------------------------------------------------------
\* the step is a cycle that reads MEM[0xFE00]: as its instruction, or as
\* the cell a LD or LDR loads, or as the pointer or the target of a LDI
ReadsKbsr ==
    /\ CycleStep
    /\ \/ PCreg = MR_KBSR
       \/ /\ Completed
          /\ FetchedOp \in {Opcode.LD, Opcode.LDI, Opcode.LDR}
          /\ LET d       == Fetched
                 address == IF d.opcode = Opcode.LDR
                            THEN (registers[d.base_r] + d.offset) % U16
                            ELSE (NextAddr + d.offset) % U16
             IN  \/ address = MR_KBSR
                 \/ d.opcode = Opcode.LDI /\ mem(memory, address) = MR_KBSR

\* C21: a cycle that reads MEM[0xFE00] (instruction fetch, LD, LDI, LDR)
\* has polled the console: afterwards MEM[0xFE00] is 0x8000 and MEM[0xFE02]
\* is the byte of the key, or MEM[0xFE00] is 0, and a fetch at 0xFE00 gets
\* that status word; a fetch at any other address gets the stored cell.
C21_Step ==
    /\ ReadsKbsr =>
         /\ mem(memory', MR_KBSR) \in {0, 32768}
         /\ mem(memory', MR_KBSR) = 32768 => mem(memory', MR_KBDR) \in 0..255
         /\ PCreg = MR_KBSR => instruction' = mem(memory', MR_KBSR)
    /\ (CycleStep /\ PCreg # MR_KBSR) => instruction' = mem(memory, PCreg)

C21_KbsrReadPolls == [][C21_Step]_vars

----------------------------------------------------------------------------
(* Vocabulary of the properties of the loader *)

\* main has run up to vm.run() and no cycle has started
Loaded == phase # "init" /\ cycles = 0

\* word k of the file, counted from 0, most significant byte first
WordOf(k) == file[2 * k + 1] * 256 + file[2 * k + 2]

\* the file is a stream of N + 1 whole words, N >= 0
WholeWords == Len(file) >= 2 /\ Len(file) % 2 = 0

\* the number N of words after the origin
ImageLen == (Len(file) \div 2) - 1

\* the word the image puts at address a, 0 where it puts none
ImageAt(a) ==
    LET ks == {k \in 1..ImageLen : (WordOf(0) + k - 1) % U16 = a}
    IN  IF ks = {} THEN 0
        ELSE WordOf(CHOOSE k \in ks : \A j \in ks : j <= k)

----------------------------------------------------------------------------
\* C22: after the loader has read a stream of N + 1 big-endian words, PC is
\* word 0, the cell at (origin + k - 1) mod 2^16 holds word k for
\* 1 <= k <= N, and every other cell and every other register is zero.
C22_LoaderPlacesWords ==
    (Loaded /\ WholeWords) =>
        /\ phase # "panic"
        /\ PCreg = WordOf(0)
        /\ \A reg_addr \in 0..9 :
              reg_addr # Register.PC => registers[reg_addr] = 0
        /\ \A a \in DOMAIN memory
                    \cup {(WordOf(0) + k - 1) % U16 : k \in 1..ImageLen} :
              mem(memory, a) = ImageAt(a)

----------------------------------------------------------------------------
\* C23: a stream that is empty or ends in the middle of a word is a load
\* failure: once main has read it the process has stopped in an error, the
\* success message was not written and no instruction is ever executed.
C23_LoadFailure ==
    (phase # "init" /\ ~WholeWords) =>
        /\ phase = "panic"
        /\ stdout = <<>>
        /\ cycles = 0

----------------------------------------------------------------------------
\* the word is RTI, RES or a TRAP with a vector outside 0x20..0x25
Fatal(w) ==
    \/ Shr(w, 12) \in {Opcode.RTI, Opcode.RES}
    \/ Shr(w, 12) = Opcode.TRAP /\ (w % 256) \notin 32..37

\* C24: a cycle that executes RTI, RES or a TRAP with an undefined vector
\* ends the run in an error (a panic, hence a non-zero exit status), not as
\* a no-op and not as HALT: it writes no register but PC, no memory cell and
\* no output, and no step, in particular no fetch, follows an error.
C24_Step ==
    /\ (CycleStep /\ Fatal(instruction')) =>
          /\ phase' = "panic"
          /\ OnlyRegs({Register.PC})
          /\ memory' = memory
          /\ stdout' = stdout
    /\ phase # "panic"

C24_IllegalIsFatal == [][C24_Step]_vars

\* TRAP x26 ran as the first instruction at 0x3000: the process has
\* panicked, after the increment of PC
C24_Witness ==
    /\ phase = "panic"
    /\ cycles = 1
    /\ instruction = 61478
    /\ registers[Register.PC] = 12289
    /\ stdout = LOADED_MESSAGE

----------------------------------------------------------------------------
\* the process has ended: main returned, exit(0) was called, or it panicked
Exited == phase \in {"done", "exit0", "panic"}

\* C25: the terminal is put into raw mode at the start of main, and when the
\* process has ended, by return from main, by HALT or by an error, the
\* terminal has its original settings again.
C25_TerminalRestored ==
    /\ (phase # "init") => (Exited \/ terminal = "raw")
    /\ Exited => terminal = "original"

----------------------------------------------------------------------------
(* Vocabulary of the properties of the disassembler: the line of the table *)
(* of forms for a decoded instruction d                                    *)

\* the mnemonic of the table: the name of the opcode, JSRR for JSR with
\* flag = 0
TableMnemonic(d) ==
    CASE d.opcode = Opcode.BR   -> <<66, 82>>   \* "BR"
      [] d.opcode = Opcode.ADD  -> <<65, 68, 68>>   \* "ADD"
      [] d.opcode = Opcode.LD   -> <<76, 68>>   \* "LD"
      [] d.opcode = Opcode.ST   -> <<83, 84>>   \* "ST"
      [] d.opcode = Opcode.JSR  -> IF d.flag = 1 THEN <<74, 83, 82>> ELSE <<74, 83, 82, 82>>   \* "JSR, JSRR"
      [] d.opcode = Opcode.AND  -> <<65, 78, 68>>   \* "AND"
      [] d.opcode = Opcode.LDR  -> <<76, 68, 82>>   \* "LDR"
      [] d.opcode = Opcode.STR  -> <<83, 84, 82>>   \* "STR"
      [] d.opcode = Opcode.RTI  -> <<82, 84, 73>>   \* "RTI"
      [] d.opcode = Opcode.NOT  -> <<78, 79, 84>>   \* "NOT"
      [] d.opcode = Opcode.LDI  -> <<76, 68, 73>>   \* "LDI"
      [] d.opcode = Opcode.STI  -> <<83, 84, 73>>   \* "STI"
      [] d.opcode = Opcode.JMP  -> <<74, 77, 80>>   \* "JMP"
      [] d.opcode = Opcode.RES  -> <<82, 69, 83>>   \* "RES"
      [] d.opcode = Opcode.LEA  -> <<76, 69, 65>>   \* "LEA"
      [] d.opcode = Opcode.TRAP -> <<84, 82, 65, 80>>   \* "TRAP"

\* the name of a general register: R and its digit
TableRegister(i) == <<82, 48 + i>>

\* the operands of the table, each after one space
TableOperands(d) ==
    LET op == d.opcode
    IN  CASE op = Opcode.BR ->
               SPACE \o Binary(d.nzp) \o SPACE \o Decimal(d.offset)
          [] op \in {Opcode.ADD, Opcode.AND} ->
               SPACE \o TableRegister(d.dr) \o SPACE \o TableRegister(d.sr1)
               \o SPACE \o (IF d.flag = 0 THEN TableRegister(d.sr2)
                             ELSE Decimal(d.imm5))
          [] op \in {Opcode.LD, Opcode.LDI, Opcode.ST, Opcode.STI,
                     Opcode.LEA} ->
               SPACE \o TableRegister(d.dr) \o SPACE \o Decimal(d.offset)
          [] op = Opcode.JSR ->
               SPACE \o (IF d.flag = 1 THEN Decimal(d.offset)
                         ELSE TableRegister(d.base_r))
          [] op \in {Opcode.LDR, Opcode.STR} ->
               SPACE \o TableRegister(d.dr) \o SPACE
               \o TableRegister(d.base_r) \o SPACE \o Decimal(d.offset)
          [] op = Opcode.NOT ->
               SPACE \o TableRegister(d.dr) \o SPACE \o TableRegister(d.sr1)
          [] op = Opcode.JMP ->
               SPACE \o TableRegister(d.base_r)
          [] op \in {Opcode.RTI, Opcode.RES} ->
               SPACE \o <<117, 110, 117, 115, 101, 100>>   \* "unused"
          [] op = Opcode.TRAP ->
               SPACE \o
               (CASE d.trap_code = 32 -> <<71, 69, 84, 67>>         \* "GETC"
                  [] d.trap_code = 33 -> <<79, 85, 84>>             \* "OUT"
                  [] d.trap_code = 34 -> <<80, 85, 84, 83>>         \* "PUTS"
                  [] d.trap_code = 35 -> <<73, 78>>                 \* "IN"
                  [] d.trap_code = 36 -> <<80, 85, 84, 83, 112>>    \* "PUTSp"
                  [] d.trap_code = 37 -> <<72, 65, 76, 84>>         \* "HALT"
                  [] OTHER ->
                       \* "unrecognized"
                       <<117, 110, 114, 101, 99, 111, 103, 110, 105, 122, 101, 100>>)

----------------------------------------------------------------------------
\* C26: the line of disassembly of every instruction word is the line of
\* the table of forms: the mnemonic, a space, the operands separated by
\* spaces; JSR with flag = 1 is "JSR <offset>", JSR with flag = 0 is
\* "JSRR <base_r>", register 0 is "R0", an undefined trap vector gives
\* "TRAP unrecognized" and RTI and RES give "RTI unused" and "RES unused".
C26_DisassemblyForm ==
    Called("fmt") =>
        LET d == decode_instruction(call[2])
        IN  /\ ret.st = "ok"
            /\ ret.val = TableMnemonic(d) \o TableOperands(d)

----------------------------------------------------------------------------
\* C27: for every 16-bit value, also one with bits set above bit n - 1, and
\* every n in 1..15, sext(value, n) returns, and bits n..15 of the result
\* are all set if bit n - 1 of value is 1 and all zero otherwise.
C27_SextBySignBit ==
    (Called("sext") /\ call[3] \in 1..15) =>
        LET value == call[2]
            n     == call[3]
        IN  /\ ret.st = "ok"
            /\ ret.val \div (2 ^ n) =
                 IF Field(value, n - 1, 1) = 1 THEN (2 ^ (16 - n)) - 1 ELSE 0

====
